---- MODULE Spec2Model ----
(***************************************************************************)
(* Model of the parse-tree adapters of parse-crs: the enum_token           *)
(* vocabularies, Selector, Input, Vec<Input> and SecRule, with their       *)
(* Deserialize and Serialize implementations.                              *)
(*                                                                         *)
(* Text (&str, String) is a sequence of one-character strings, so that     *)
(* formatting and parsing are computed character by character.             *)
(* Option<T> is [some |-> FALSE] or [some |-> TRUE, v |-> x].              *)
(* Result<T, E> is [tag |-> "Ok", val |-> x] or [tag |-> "Err", err |-> e];*)
(* a call that panics yields [tag |-> "Panic"].                            *)
(***************************************************************************)
EXTENDS Integers, Sequences, FiniteSets, TLC

VARIABLES op, param, ret, out, invoked, origin

vars == <<op, param, ret, out, invoked, origin>>

\* ------------------------------------------------------------- bounds
\* longest list of input nodes under an inputs node
MaxInputs == 3
\* most children of a sec_rule node
MaxChildren == 3
\* largest bounded capacity of an output sink, in characters
MaxCap == 4

\* ------------------------------------------------- Option and Result
None == [some |-> FALSE]

Some(x) == [some |-> TRUE, v |-> x]

Ok(x) == [tag |-> "Ok", val |-> x]

Err(e) == [tag |-> "Err", err |-> e]

Panic == [tag |-> "Panic"]

\* Option::map(|p| p.as_str()) over an optional parse-tree node
as_str_opt(p) == IF p.some THEN Some(p.v.str) ELSE None

\* ------------------------------------------- enum_token vocabularies
\* The (variant, spelling) pairs of InputType, in declaration order.
InputTypeTable == <<
    [variant |-> "ArgsCombinedSize", name |-> <<"A","R","G","S","_","C","O","M","B","I","N","E","D","_","S","I","Z","E">>],
    [variant |-> "ArgsGet", name |-> <<"A","R","G","S","_","G","E","T">>],
    [variant |-> "ArgsGetNames", name |-> <<"A","R","G","S","_","G","E","T","_","N","A","M","E","S">>],
    [variant |-> "ArgsPost", name |-> <<"A","R","G","S","_","P","O","S","T">>],
    [variant |-> "ArgsPostNames", name |-> <<"A","R","G","S","_","P","O","S","T","_","N","A","M","E","S">>],
    [variant |-> "Args", name |-> <<"A","R","G","S">>],
    [variant |-> "ArgsNames", name |-> <<"A","R","G","S","_","N","A","M","E","S">>],
    [variant |-> "Duration", name |-> <<"D","U","R","A","T","I","O","N">>],
    [variant |-> "FilesCombinedSize", name |-> <<"F","I","L","E","S","_","C","O","M","B","I","N","E","D","_","S","I","Z","E">>],
    [variant |-> "FilesNames", name |-> <<"F","I","L","E","S","_","N","A","M","E","S">>],
    [variant |-> "Files", name |-> <<"F","I","L","E","S">>],
    [variant |-> "Geo", name |-> <<"G","E","O">>],
    [variant |-> "Ip", name |-> <<"I","P">>],
    [variant |-> "MatchedVar", name |-> <<"M","A","T","C","H","E","D","_","V","A","R">>],
    [variant |-> "MatchedVarName", name |-> <<"M","A","T","C","H","E","D","_","V","A","R","_","N","A","M","E">>],
    [variant |-> "MatchedVars", name |-> <<"M","A","T","C","H","E","D","_","V","A","R","S">>],
    [variant |-> "MatchedVarsNames", name |-> <<"M","A","T","C","H","E","D","_","V","A","R","S","_","N","A","M","E","S">>],
    [variant |-> "MultipartPartHeaders", name |-> <<"M","U","L","T","I","P","A","R","T","_","P","A","R","T","_","H","E","A","D","E","R","S">>],
    [variant |-> "QueryString", name |-> <<"Q","U","E","R","Y","_","S","T","R","I","N","G">>],
    [variant |-> "RemoteAddr", name |-> <<"R","E","M","O","T","E","_","A","D","D","R">>],
    [variant |-> "ReqBodyProcessor", name |-> <<"R","E","Q","B","O","D","Y","_","P","R","O","C","E","S","S","O","R">>],
    [variant |-> "RequestBasename", name |-> <<"R","E","Q","U","E","S","T","_","B","A","S","E","N","A","M","E">>],
    [variant |-> "RequestBody", name |-> <<"R","E","Q","U","E","S","T","_","B","O","D","Y">>],
    [variant |-> "RequestCookiesNames", name |-> <<"R","E","Q","U","E","S","T","_","C","O","O","K","I","E","S","_","N","A","M","E","S">>],
    [variant |-> "RequestCookies", name |-> <<"R","E","Q","U","E","S","T","_","C","O","O","K","I","E","S">>],
    [variant |-> "RequestFilename", name |-> <<"R","E","Q","U","E","S","T","_","F","I","L","E","N","A","M","E">>],
    [variant |-> "RequestHeadersNames", name |-> <<"R","E","Q","U","E","S","T","_","H","E","A","D","E","R","S","_","N","A","M","E","S">>],
    [variant |-> "RequestHeaders", name |-> <<"R","E","Q","U","E","S","T","_","H","E","A","D","E","R","S">>],
    [variant |-> "RequestLine", name |-> <<"R","E","Q","U","E","S","T","_","L","I","N","E">>],
    [variant |-> "RequestMethod", name |-> <<"R","E","Q","U","E","S","T","_","M","E","T","H","O","D">>],
    [variant |-> "RequestProtocol", name |-> <<"R","E","Q","U","E","S","T","_","P","R","O","T","O","C","O","L">>],
    [variant |-> "RequestUri", name |-> <<"R","E","Q","U","E","S","T","_","U","R","I">>],
    [variant |-> "RequestUriRaw", name |-> <<"R","E","Q","U","E","S","T","_","U","R","I","_","R","A","W">>],
    [variant |-> "ResponseBody", name |-> <<"R","E","S","P","O","N","S","E","_","B","O","D","Y">>],
    [variant |-> "ResponseStatus", name |-> <<"R","E","S","P","O","N","S","E","_","S","T","A","T","U","S">>],
    [variant |-> "Tx", name |-> <<"T","X">>],
    [variant |-> "UniqueId", name |-> <<"U","N","I","Q","U","E","_","I","D">>],
    [variant |-> "Xml", name |-> <<"X","M","L">>]
>>

\* The (variant, spelling) pairs of SelectorType, in declaration order.
SelectorTypeTable == <<
    [variant |-> "Include", name |-> <<>>],
    [variant |-> "Exclude", name |-> <<"!">>],
    [variant |-> "Count", name |-> <<"&">>]
>>

\* enum_token!: variants(), the symbols in declaration order
variants(T) == [i \in 1..Len(T) |-> T[i].variant]

\* enum_token!: name(&self), a match on the variant
name(T, s) == T[CHOOSE i \in 1..Len(T) : T[i].variant = s].name

\* s starts with p
StartsWith(s, p) == Len(p) <= Len(s) /\ SubSeq(s, 1, Len(p)) = p

\* from_name written with starts_with instead of an exact match
from_name_prefix(T, s) ==
    LET hits == {i \in 1..Len(T) : StartsWith(s, T[i].name)}
    IN  IF hits = {} THEN None
        ELSE Some(T[CHOOSE i \in hits : \A j \in hits : i <= j].variant)

\* enum_token!: from_name(s), a match on string literals (the first arm that
\* equals s wins), None for the wildcard arm
from_name(T, s) ==
    LET hits == {i \in 1..Len(T) : T[i].name = s}
    IN  IF hits = {} THEN None
        ELSE Some(T[CHOOSE i \in hits : \A j \in hits : i <= j].variant)

\* ---------------------------------------------------------- Selector
SelNone == [variant |-> "None"]

SelInclude(s) == [variant |-> "Include", key |-> s]

SelExclude(s) == [variant |-> "Exclude", key |-> s]

SelCount(s) == [variant |-> "Count", key |-> s]

SelCountAll == [variant |-> "CountAll"]

\* Selector::arg
arg(self) ==
    CASE self.variant = "None" -> None
      [] self.variant = "Include" -> Some(self.key)
      [] self.variant = "Exclude" -> Some(self.key)
      [] self.variant = "Count" -> Some(self.key)
      [] self.variant = "CountAll" -> None

\* type_ with CountAll mapped to no selector type
type_nocount(self) ==
    CASE self.variant = "None" -> None
      [] self.variant = "Include" -> Some("Include")
      [] self.variant = "Exclude" -> Some("Exclude")
      [] self.variant = "Count" -> Some("Count")
      [] self.variant = "CountAll" -> None

\* Selector::type_
type_(self) ==
    CASE self.variant = "None" -> None
      [] self.variant = "Include" -> Some("Include")
      [] self.variant = "Exclude" -> Some("Exclude")
      [] self.variant = "Count" -> Some("Count")
      [] self.variant = "CountAll" -> Some("Count")

\* Selector::prefix
prefix(self) ==
    LET t == type_(self)
    IN  IF t.some THEN Some(name(SelectorTypeTable, t.v)) ELSE None

\* InputParseError
UnexpectedRule(r) == [kind |-> "UnexpectedRule", rule |-> r]

UnknownInput(s) == [kind |-> "UnknownInput", text |-> s]

InvalidSelector(s) == [kind |-> "InvalidSelector", text |-> s]

InvalidModifier(s) == [kind |-> "InvalidModifier", text |-> s]

\* from_parts with the Exclude and Count arms exchanged
from_parts_swapped(modifier, selector, input) ==
    LET t == IF modifier.some THEN from_name(SelectorTypeTable, modifier.v) ELSE None
    IN  CASE t = Some("Count") /\ selector.some -> Ok(SelExclude(selector.v))
          [] t = Some("Count") /\ ~selector.some -> Err(InvalidSelector(input))
          [] t = Some("Exclude") /\ selector.some -> Ok(SelCount(selector.v))
          [] t = Some("Exclude") /\ ~selector.some -> Ok(SelCountAll)
          [] t = None /\ selector.some -> Ok(SelInclude(selector.v))
          [] t = None /\ ~selector.some -> Ok(SelNone)
          [] OTHER -> Err(InvalidModifier(input))

\* Selector::from_parts
from_parts(modifier, selector, input) ==
    LET t == IF modifier.some THEN from_name(SelectorTypeTable, modifier.v) ELSE None
    IN  CASE t = Some("Exclude") /\ selector.some -> Ok(SelExclude(selector.v))
          [] t = Some("Exclude") /\ ~selector.some -> Err(InvalidSelector(input))
          [] t = Some("Count") /\ selector.some -> Ok(SelCount(selector.v))
          [] t = Some("Count") /\ ~selector.some -> Ok(SelCountAll)
          [] t = None /\ selector.some -> Ok(SelInclude(selector.v))
          [] t = None /\ ~selector.some -> Ok(SelNone)
          [] OTHER -> Err(InvalidModifier(input))

\* --------------------------------------------------------- parse tree
\* A Pair<Rule>: its rule (node kind), the text it matched, its children.
Pair(rule, str, inner) == [rule |-> rule, str |-> str, inner |-> inner]

\* Pairs::peek
peek(pairs) == IF Len(pairs) = 0 THEN None ELSE Some(Head(pairs))

\* Pairs::next: the item and the iterator after the call
next(pairs) ==
    IF Len(pairs) = 0 THEN [item |-> None, rest |-> pairs]
    ELSE [item |-> Some(Head(pairs)), rest |-> Tail(pairs)]

\* PairsExt::next_if_rule
next_if_rule(pairs, rule) ==
    LET nxt == peek(pairs)
    IN  IF ~nxt.some THEN [item |-> None, rest |-> pairs]
        ELSE IF nxt.v.rule = rule THEN next(pairs)
        ELSE [item |-> None, rest |-> pairs]

\* ------------------------------------------------- Input: Deserialize
\* deserialize resolving the selector before the name
Input_deserialize_selector_first(input) ==
    IF input.rule # "input" THEN Err(UnexpectedRule(input.rule))
    ELSE
      LET input_str == input.str
          m == next_if_rule(input.inner, "input_modifier")
          modifier == as_str_opt(m.item)
          n == next(m.rest)
      IN  IF ~n.item.some THEN Panic
          ELSE
            LET text == n.item.v.str
                k == next(n.rest)
                selector == from_parts(modifier, as_str_opt(k.item), input_str)
                ty == from_name(InputTypeTable, text)
            IN  IF selector.tag = "Err" THEN selector
                ELSE IF ~ty.some THEN Err(UnknownInput(text))
                ELSE Ok([input |-> ty.v, selector |-> selector.val])

\* <Input as Deserialize>::deserialize
Input_deserialize(input) ==
    IF input.rule # "input" THEN Err(UnexpectedRule(input.rule))
    ELSE
      LET input_str == input.str
          m == next_if_rule(input.inner, "input_modifier")
          modifier == as_str_opt(m.item)
          n == next(m.rest)
      IN  IF ~n.item.some THEN Panic
          ELSE
            LET text == n.item.v.str
                ty == from_name(InputTypeTable, text)
            IN  IF ~ty.some THEN Err(UnknownInput(text))
                ELSE
                  LET k == next(n.rest)
                      selector == from_parts(modifier, as_str_opt(k.item), input_str)
                  IN  IF selector.tag = "Err" THEN selector
                      ELSE Ok([input |-> ty.v, selector |-> selector.val])

\* the loop of <Vec<Input> as Deserialize>::deserialize over the children
\* not yet visited, actions being the vector built so far
RECURSIVE VecInputLoop(_, _)
VecInputLoop(rest, actions) ==
    IF Len(rest) = 0 THEN Ok(actions)
    ELSE LET r == Input_deserialize(Head(rest))
         IN  IF r.tag = "Ok" THEN VecInputLoop(Tail(rest), Append(actions, r.val))
             ELSE r

\* <Vec<Input> as Deserialize>::deserialize
VecInput_deserialize(input) ==
    IF input.rule # "inputs" THEN Err(UnexpectedRule(input.rule))
    ELSE VecInputLoop(input.inner, <<>>)

\* --------------------------------------------------- Input: Serialize
\* An output sink W: Write holding what was written. cap < 0 is a growable
\* sink (Vec<u8>); cap >= 0 is a fixed buffer (&mut [u8]) with room for cap
\* more characters.
Sink(cap) == [buf |-> <<>>, cap |-> cap]

IoError == [kind |-> "WriteZero"]

\* write!(out, ..) of the formatted text s: all of s, or as much of it as
\* fits and an error
write(w, s) ==
    IF w.cap < 0 THEN [res |-> Ok(<<>>), w |-> [w EXCEPT !.buf = @ \o s]]
    ELSE IF Len(s) <= w.cap
      THEN [res |-> Ok(<<>>), w |-> [buf |-> w.buf \o s, cap |-> w.cap - Len(s)]]
    ELSE [res |-> Err(IoError), w |-> [buf |-> w.buf \o SubSeq(s, 1, w.cap), cap |-> 0]]

\* serialize with the key written straight after the name
Input_serialize_nocolon(self, w) ==
    LET input == name(InputTypeTable, self.input)
        modifier == prefix(self.selector)
        selector == arg(self.selector)
    IN  CASE modifier.some /\ selector.some -> write(w, modifier.v \o input \o selector.v)
          [] modifier.some /\ ~selector.some -> write(w, modifier.v \o input)
          [] ~modifier.some /\ selector.some -> write(w, input \o selector.v)
          [] ~modifier.some /\ ~selector.some -> write(w, input)

\* <Input as Serialize>::serialize
Input_serialize(self, w) ==
    LET input == name(InputTypeTable, self.input)
        modifier == prefix(self.selector)
        selector == arg(self.selector)
    IN  CASE modifier.some /\ selector.some ->
               write(w, modifier.v \o input \o <<":">> \o selector.v)
          [] modifier.some /\ ~selector.some -> write(w, modifier.v \o input)
          [] ~modifier.some /\ selector.some -> write(w, input \o <<":">> \o selector.v)
          [] ~modifier.some /\ ~selector.some -> write(w, input)

\* the loop of <Vec<Input> as Serialize>::serialize from element i on
RECURSIVE VecSerializeLoop(_, _, _, _)
VecSerializeLoop(self, i, first, w) ==
    IF i > Len(self) THEN [res |-> Ok(<<>>), w |-> w]
    ELSE LET sep == IF first THEN [res |-> Ok(<<>>), w |-> w] ELSE write(w, <<"|">>)
         IN  IF sep.res.tag = "Err" THEN sep
             ELSE LET e == Input_serialize(self[i], sep.w)
                  IN  IF e.res.tag = "Err" THEN e
                      ELSE VecSerializeLoop(self, i + 1, FALSE, e.w)

\* serialize with first starting false: a separator before every element
VecInput_serialize_nofirst(self, w) == VecSerializeLoop(self, 1, FALSE, w)

\* <Vec<Input> as Serialize>::serialize
VecInput_serialize(self, w) == VecSerializeLoop(self, 1, TRUE, w)

\* ----------------------------------------------------------- SecRule
\* The operator and action adapters are other modules of the crate; each
\* claims a node kind and accepts the spellings it knows.
KnownOperators == {<<"@","r","x">>, <<"@","e","q">>}

KnownActions == {<<"d","e","n","y">>, <<"p","a","s","s">>}

\* <Operator as Deserialize>::deserialize
Operator_deserialize(input) ==
    IF input.rule # "operator" THEN Err(UnexpectedRule(input.rule))
    ELSE IF input.str \in KnownOperators THEN Ok([operator |-> input.str])
    ELSE Err([kind |-> "UnknownOperator", text |-> input.str])

\* <Vec<Action> as Deserialize>::deserialize
VecAction_deserialize(input) ==
    IF input.rule # "actions" THEN Err(UnexpectedRule(input.rule))
    ELSE IF \A i \in 1..Len(input.inner) : input.inner[i].str \in KnownActions
      THEN Ok([i \in 1..Len(input.inner) |-> [action |-> input.inner[i].str]])
    ELSE LET bad == CHOOSE i \in 1..Len(input.inner) :
                      /\ input.inner[i].str \notin KnownActions
                      /\ \A j \in 1..(i - 1) : input.inner[j].str \in KnownActions
         IN  Err([kind |-> "UnknownAction", text |-> input.inner[bad].str])

\* SecRuleParseError::Input, by #[from] InputParseError
from_input(e) == [kind |-> "Input", source |-> e]

\* an operator error converted into the Action variant
from_operator_as_action(e) == [kind |-> "Action", source |-> e]

\* SecRuleParseError::Operator, by #[from] OperatorParseError
from_operator(e) == [kind |-> "Operator", source |-> e]

\* SecRuleParseError::Action, by #[from] ActionParseError
from_action(e) == [kind |-> "Action", source |-> e]

\* <SecRule as Deserialize>::deserialize: its result and, in call order, the
\* child adapters it invoked
SecRule_deserialize(input) ==
    IF input.rule # "sec_rule"
      THEN [ret |-> Err(UnexpectedRule(input.rule)), invoked |-> <<>>]
    ELSE
      LET n1 == next(input.inner)
      IN  IF ~n1.item.some THEN [ret |-> Panic, invoked |-> <<>>]
          ELSE
      LET inputs == VecInput_deserialize(n1.item.v)
          n2 == next(n1.rest)
      IN  IF inputs.tag = "Panic" THEN [ret |-> Panic, invoked |-> <<"inputs">>]
          ELSE IF inputs.tag = "Err"
            THEN [ret |-> Err(from_input(inputs.err)), invoked |-> <<"inputs">>]
          ELSE IF ~n2.item.some THEN [ret |-> Panic, invoked |-> <<"inputs">>]
          ELSE
      LET o == Operator_deserialize(n2.item.v)
          n3 == next(n2.rest)
      IN  IF o.tag = "Err"
            THEN [ret |-> Err(from_operator(o.err)), invoked |-> <<"inputs", "op">>]
          ELSE IF ~n3.item.some THEN [ret |-> Panic, invoked |-> <<"inputs", "op">>]
          ELSE
      LET actions == VecAction_deserialize(n3.item.v)
      IN  IF actions.tag = "Err"
            THEN [ret |-> Err(from_action(actions.err)),
                  invoked |-> <<"inputs", "op", "actions">>]
          ELSE [ret |-> Ok([inputs |-> inputs.val, op |-> o.val, actions |-> actions.val]),
                invoked |-> <<"inputs", "op", "actions">>]

\* ----------------------------------------------------------- grammar
\* A childless node
Leaf(rule, str) == Pair(rule, str, <<>>)

\* The input node the grammar produces for a text: an optional modifier
\* child, the name child, and a key child for what follows the first ':'.
GrammarInput(text) ==
    LET hasMod == Len(text) > 0 /\ text[1] \in {"!", "&"}
        body == IF hasMod THEN Tail(text) ELSE text
        colons == {i \in 1..Len(body) : body[i] = ":"}
        colon == IF colons = {} THEN Len(body) + 1
                 ELSE CHOOSE i \in colons : \A j \in colons : i <= j
    IN  Pair("input", text,
             (IF hasMod THEN <<Leaf("input_modifier", <<text[1]>>)>> ELSE <<>>)
             \o <<Leaf("input_name", SubSeq(body, 1, colon - 1))>>
             \o (IF colons = {} THEN <<>>
                 ELSE <<Leaf("input_selector", SubSeq(body, colon + 1, Len(body)))>>))

\* ------------------------------------------------------------ inputs
\* the canonical spellings of a vocabulary
Spellings(T) == {T[i].name : i \in 1..Len(T)}

\* the symbols of a vocabulary
Symbols(T) == {T[i].variant : i \in 1..Len(T)}

Vocabulary(v) == IF v = "InputType" THEN InputTypeTable ELSE SelectorTypeTable

\* texts that are no spelling of an input: another case, a proper prefix,
\* surrounding blanks, an extra character
UnknownNames ==
    {<<"N","O","P","E">>, <<"a","r","g","s">>, <<"A","R","G">>, <<" ","T","X">>,
     <<"T","X"," ">>, <<"T","X","_">>, <<"!","!">>, <<"x">>}

NameTexts == Spellings(InputTypeTable) \cup UnknownNames

\* modifier texts: the three spellings of SelectorType and one that is none
ModifierTexts == Spellings(SelectorTypeTable) \cup {<<"x">>}

KeyTexts == {<<>>, <<"k">>, <<"a",":","b">>, <<"x","|","y">>}

Optional(S) == {None} \cup {Some(x) : x \in S}

\* the text an input node with these parts matched
InputText(m, n, k) ==
    (IF m.some THEN m.v ELSE <<>>) \o (IF n.some THEN n.v ELSE <<>>)
    \o (IF k.some THEN <<":">> \o k.v ELSE <<>>)

\* a node of the given kind with an optional modifier, name and key child
InputNode(rule, m, n, k) ==
    Pair(rule, InputText(m, n, k),
         (IF m.some THEN <<Leaf("input_modifier", m.v)>> ELSE <<>>)
         \o (IF n.some THEN <<Leaf("input_name", n.v)>> ELSE <<>>)
         \o (IF k.some THEN <<Leaf("input_selector", k.v)>> ELSE <<>>))

TX == <<"T","X">>

\* nodes handed to Input::deserialize: every shape of input node, and nodes
\* of other kinds
InputNodes ==
    {InputNode("input", m, n, k) :
        m \in Optional(ModifierTexts), n \in Optional(NameTexts), k \in Optional(KeyTexts)}
    \cup {InputNode(r, m, Some(TX), None) :
            r \in {"inputs", "sec_rule", "input_modifier"}, m \in Optional({<<"!">>})}
    \cup {Pair("input", <<"!","&">>, <<Leaf("input_modifier", <<"!">>),
                                       Leaf("input_modifier", <<"&">>)>>)}

\* the children an inputs node is built from
SampleInputs ==
    {InputNode("input", None, Some(<<"A","R","G","S">>), None),
     InputNode("input", Some(<<"&">>), Some(<<"X","M","L">>), None),
     InputNode("input", Some(<<"!">>), Some(TX), Some(<<"k">>)),
     InputNode("input", None, Some(<<"I","P">>), Some(<<"k">>)),
     InputNode("input", Some(<<"!">>), Some(TX), None),
     InputNode("input", None, Some(<<"N","O","P","E">>), None),
     InputNode("input", None, None, None),
     Leaf("operator", <<"@","r","x">>)}

SeqsUpTo(S, n) == UNION {[1..i -> S] : i \in 0..n}

\* the text an inputs node matched: its children's texts joined by '|'
RECURSIVE JoinText(_)
JoinText(kids) ==
    IF Len(kids) = 0 THEN <<>>
    ELSE IF Len(kids) = 1 THEN kids[1].str
    ELSE kids[1].str \o <<"|">> \o JoinText(Tail(kids))

\* nodes handed to Vec<Input>::deserialize
InputsNodes ==
    {Pair("inputs", JoinText(kids), kids) : kids \in SeqsUpTo(SampleInputs, MaxInputs)}
    \cup {InputNode("input", None, Some(TX), None), Leaf("sec_rule", <<>>)}

\* the children a sec_rule node is built from
SampleRuleChildren ==
    {Pair("inputs", <<"A","R","G","S","|","&","X","M","L">>,
          <<InputNode("input", None, Some(<<"A","R","G","S">>), None),
            InputNode("input", Some(<<"&">>), Some(<<"X","M","L">>), None)>>),
     Pair("inputs", <<"!","T","X">>, <<InputNode("input", Some(<<"!">>), Some(TX), None)>>),
     Pair("inputs", <<>>, <<InputNode("input", None, None, None)>>),
     Leaf("operator", <<"@","r","x">>),
     Leaf("operator", <<"@","?">>),
     Pair("actions", <<"d","e","n","y">>, <<Leaf("action", <<"d","e","n","y">>)>>),
     Pair("actions", <<"?">>, <<Leaf("action", <<"?">>)>>)}

\* nodes handed to SecRule::deserialize
RuleNodes ==
    {Pair("sec_rule", <<>>, kids) : kids \in SeqsUpTo(SampleRuleChildren, MaxChildren)}
    \cup {Leaf("input", TX), Leaf("inputs", <<>>)}

\* the sinks serialization writes to
Caps == {-1} \cup 0..MaxCap

\* ------------------------------------------------------ state machine
\* op is the last call made ("idle" before any), param its argument, ret what
\* it returned, out the sink after it, invoked the child adapters a rule's
\* deserialization called, origin the value a reparse started from.
Init ==
    /\ op = "idle"
    /\ param = <<>>
    /\ ret = <<>>
    /\ out = Sink(-1)
    /\ invoked = <<>>
    /\ origin = <<>>

\* T::name(&s)
CallName ==
    /\ op = "idle"
    /\ \E v \in {"InputType", "SelectorType"} : \E s \in Symbols(Vocabulary(v)) :
         /\ param' = [vocab |-> v, sym |-> s]
         /\ ret' = name(Vocabulary(v), s)
    /\ op' = "name"
    /\ UNCHANGED <<out, invoked, origin>>

\* T::from_name(t), for a drawn text or for the spelling name just returned
CallFromName ==
    /\ \/ /\ op = "idle"
          /\ \E v \in {"InputType", "SelectorType"} :
               \E t \in NameTexts \cup ModifierTexts :
                 /\ param' = [vocab |-> v, text |-> t]
                 /\ ret' = from_name(Vocabulary(v), t)
       \/ /\ op = "name"
          /\ param' = [vocab |-> param.vocab, text |-> ret]
          /\ ret' = from_name(Vocabulary(param.vocab), ret)
    /\ op' = "from_name"
    /\ UNCHANGED <<out, invoked, origin>>

\* Selector::from_parts(modifier, selector, input)
CallFromParts ==
    /\ op = "idle"
    /\ \E m \in Optional(ModifierTexts) : \E k \in Optional(KeyTexts) :
         /\ param' = [modifier |-> m, selector |-> k, input |-> InputText(m, Some(TX), k)]
         /\ ret' = from_parts(m, k, InputText(m, Some(TX), k))
    /\ op' = "from_parts"
    /\ UNCHANGED <<out, invoked, origin>>

\* Input::deserialize(node), for a drawn node or for the node just parsed
DeserializeInput ==
    \/ /\ op = "idle"
       /\ \E node \in InputNodes :
            /\ param' = node
            /\ ret' = Input_deserialize(node)
       /\ op' = "Input::deserialize"
       /\ UNCHANGED <<out, invoked, origin>>
    \/ /\ op = "parse"
       /\ param' = ret
       /\ ret' = Input_deserialize(ret)
       /\ op' = "reparse"
       /\ UNCHANGED <<out, invoked, origin>>

\* Input::serialize(&v, out) of the value just deserialized
SerializeInput ==
    /\ op = "Input::deserialize"
    /\ ret.tag = "Ok"
    /\ \E cap \in Caps :
         LET r == Input_serialize(ret.val, Sink(cap))
         IN  /\ ret' = r.res
             /\ out' = r.w
    /\ param' = ret.val
    /\ origin' = ret.val
    /\ op' = "Input::serialize"
    /\ UNCHANGED invoked

\* the grammar parses the text just written as an input
ParseInput ==
    /\ op = "Input::serialize"
    /\ ret.tag = "Ok"
    /\ param' = out.buf
    /\ ret' = GrammarInput(out.buf)
    /\ op' = "parse"
    /\ UNCHANGED <<out, invoked, origin>>

\* Vec<Input>::deserialize(node)
DeserializeInputs ==
    /\ op = "idle"
    /\ \E node \in InputsNodes :
         /\ param' = node
         /\ ret' = VecInput_deserialize(node)
    /\ op' = "Vec<Input>::deserialize"
    /\ UNCHANGED <<out, invoked, origin>>

\* Vec<Input>::serialize(&v, out) of the list just deserialized
SerializeInputs ==
    /\ op = "Vec<Input>::deserialize"
    /\ ret.tag = "Ok"
    /\ \E cap \in Caps :
         LET r == VecInput_serialize(ret.val, Sink(cap))
         IN  /\ ret' = r.res
             /\ out' = r.w
    /\ param' = ret.val
    /\ op' = "Vec<Input>::serialize"
    /\ UNCHANGED <<invoked, origin>>

\* SecRule::deserialize(node)
DeserializeSecRule ==
    /\ op = "idle"
    /\ \E node \in RuleNodes :
         LET r == SecRule_deserialize(node)
         IN  /\ param' = node
             /\ ret' = r.ret
             /\ invoked' = r.invoked
    /\ op' = "SecRule::deserialize"
    /\ UNCHANGED <<out, origin>>

Next ==
    \/ CallName
    \/ CallFromName
    \/ CallFromParts
    \/ DeserializeInput
    \/ SerializeInput
    \/ ParseInput
    \/ DeserializeInputs
    \/ SerializeInputs
    \/ DeserializeSecRule

Spec == Init /\ [][Next]_vars

\* ------------------------------------------------------------ claims
\* p is a prefix of s
IsPrefix(p, s) == Len(p) <= Len(s) /\ SubSeq(s, 1, Len(p)) = p

\* C1: an Input returned by deserialize, serialized and parsed again by the
\* grammar, deserializes to an equal Input.
C1_RoundTrip == op = "reparse" => ret.tag = "Ok" /\ ret.val = origin

C1_Witness ==
    /\ op = "reparse"
    /\ origin = [input |-> "RequestHeaders", selector |-> SelExclude(<<"a",":","b">>)]
    /\ ret.tag = "Ok"

\* C2: from_parts follows the resolution table for an absent modifier and for
\* the modifiers "!" and "&", each with and without a key.
C2_ResolutionTable ==
    op = "from_parts" =>
      LET m == param.modifier
          k == param.selector
      IN  /\ (~m.some /\ k.some) => ret = Ok(SelInclude(k.v))
          /\ (~m.some /\ ~k.some) => ret = Ok(SelNone)
          /\ (m = Some(<<"!">>) /\ k.some) => ret = Ok(SelExclude(k.v))
          /\ (m = Some(<<"!">>) /\ ~k.some) => ret = Err(InvalidSelector(param.input))
          /\ (m = Some(<<"&">>) /\ k.some) => ret = Ok(SelCount(k.v))
          /\ (m = Some(<<"&">>) /\ ~k.some) => ret = Ok(SelCountAll)

C2_Witness ==
    /\ op = "from_parts"
    /\ param.modifier = Some(<<"!">>)
    /\ ~param.selector.some
    /\ ret = Err(InvalidSelector(<<"!","T","X">>))

\* C3: from_parts given a modifier whose text is no spelling of SelectorType
\* returns InvalidModifier, with or without a key.
C3_UnrecognizedModifierRejected ==
    (/\ op = "from_parts"
     /\ param.modifier.some
     /\ param.modifier.v \notin Spellings(SelectorTypeTable))
    => ret = Err(InvalidModifier(param.input))

\* C4: no deserializer panics, whatever node it is handed.
C4_NoPanic ==
    op \in {"Input::deserialize", "reparse", "Vec<Input>::deserialize",
            "SecRule::deserialize"}
    => ret.tag # "Panic"

\* C5: a rule node's three children are deserialized in the order inputs,
\* operator, actions; the first child error is returned unchanged inside the
\* variant of its position, later children are not deserialized, and a
\* SecRule is returned only when all three children succeed.
C5_FirstChildError ==
    (op = "SecRule::deserialize" /\ param.rule = "sec_rule" /\ Len(param.inner) >= 3) =>
      LET r1 == VecInput_deserialize(param.inner[1])
          r2 == Operator_deserialize(param.inner[2])
          r3 == VecAction_deserialize(param.inner[3])
      IN  /\ r1.tag = "Err" =>
                /\ ret.tag = "Err" /\ ret.err.kind = "Input" /\ ret.err.source = r1.err
                /\ invoked = <<"inputs">>
          /\ (r1.tag = "Ok" /\ r2.tag = "Err") =>
                /\ ret.tag = "Err" /\ ret.err.kind = "Operator" /\ ret.err.source = r2.err
                /\ invoked = <<"inputs", "op">>
          /\ (r1.tag = "Ok" /\ r2.tag = "Ok" /\ r3.tag = "Err") =>
                /\ ret.tag = "Err" /\ ret.err.kind = "Action" /\ ret.err.source = r3.err
                /\ invoked = <<"inputs", "op", "actions">>
          /\ ret.tag = "Ok" =>
                /\ r1.tag = "Ok" /\ r2.tag = "Ok" /\ r3.tag = "Ok"
                /\ ret.val = [inputs |-> r1.val, op |-> r2.val, actions |-> r3.val]
          /\ (r1.tag = "Ok" /\ r2.tag = "Ok" /\ r3.tag = "Ok") => ret.tag = "Ok"

C5_Witness ==
    /\ op = "SecRule::deserialize"
    /\ param.rule = "sec_rule"
    /\ Len(param.inner) >= 3
    /\ VecInput_deserialize(param.inner[1]).tag = "Ok"
    /\ param.inner[2] = Leaf("operator", <<"@","?">>)
    /\ VecAction_deserialize(param.inner[3]).tag = "Err"
    /\ ret.tag = "Err"
    /\ ret.err.kind = "Operator"
    /\ invoked = <<"inputs", "op">>

\* C6: in each vocabulary from_name(t) is Some(s) exactly when t is the
\* spelling name(s), and None when t is the spelling of no symbol; so
\* from_name(name(s)) is Some(s).
C6_VocabularyInverse ==
    op = "from_name" =>
      LET T == Vocabulary(param.vocab)
      IN  /\ \A s \in Symbols(T) : (ret = Some(s)) <=> (param.text = name(T, s))
          /\ (\A s \in Symbols(T) : param.text # name(T, s)) => ret = None

C6_Witness ==
    /\ op = "from_name"
    /\ param.vocab = "InputType"
    /\ param.text = name(InputTypeTable, "ArgsGetNames")
    /\ ret = Some("ArgsGetNames")

\* the child Input::deserialize reads the name from: the one after the
\* modifier child, when there is a modifier child
NamePos(node) ==
    IF Len(node.inner) > 0 /\ node.inner[1].rule = "input_modifier" THEN 2 ELSE 1

\* C7: an input node whose name child is no spelling of InputType fails with
\* UnknownInput carrying that text, whatever modifier and key it has.
C7_UnknownName ==
    (/\ op \in {"Input::deserialize", "reparse"}
     /\ param.rule = "input"
     /\ Len(param.inner) >= NamePos(param)
     /\ param.inner[NamePos(param)].str \notin Spellings(InputTypeTable))
    => ret = Err(UnknownInput(param.inner[NamePos(param)].str))

C7_Witness ==
    /\ op = "Input::deserialize"
    /\ param = InputNode("input", Some(<<"!">>), Some(<<"N","O","P","E">>), None)
    /\ ret = Err(UnknownInput(<<"N","O","P","E">>))

\* the text C8 gives for an Input
Shape(v) ==
    LET n == name(InputTypeTable, v.input)
        s == v.selector
    IN  CASE s.variant = "None" -> n
          [] s.variant = "Include" -> n \o <<":">> \o s.key
          [] s.variant = "Exclude" -> <<"!">> \o n \o <<":">> \o s.key
          [] s.variant = "Count" -> <<"&">> \o n \o <<":">> \o s.key
          [] s.variant = "CountAll" -> <<"&">> \o n

\* C8: Input::serialize writes the modifier spelling, the name, and ':' and
\* the key exactly when the selector carries a key: NAME, NAME:k, !NAME:k,
\* &NAME:k or &NAME, and no other character (a sink that fails has a prefix).
C8_SerializeShape ==
    op = "Input::serialize" =>
      /\ IsPrefix(out.buf, Shape(param))
      /\ ret.tag = "Ok" => out.buf = Shape(param)

C8_Witness ==
    /\ op = "Input::serialize"
    /\ param = [input |-> "Tx", selector |-> SelCountAll]
    /\ ret.tag = "Ok"
    /\ out.buf = <<"&","T","X">>

\* the elements' texts with one '|' before each element but the first
RECURSIVE Joined(_, _)
Joined(list, i) ==
    IF i > Len(list) THEN <<>>
    ELSE (IF i = 1 THEN <<>> ELSE <<"|">>) \o Shape(list[i]) \o Joined(list, i + 1)

RECURSIVE TotalLen(_)
TotalLen(list) == IF Len(list) = 0 THEN 0 ELSE Len(Shape(Head(list))) + TotalLen(Tail(list))

\* C9: Vec<Input>::serialize writes the elements' renderings in list order
\* with one '|' between consecutive elements, none before the first or after
\* the last, and nothing for the empty list.
C9_SerializeList ==
    op = "Vec<Input>::serialize" =>
      /\ IsPrefix(out.buf, Joined(param, 1))
      /\ ret.tag = "Ok" =>
           /\ out.buf = Joined(param, 1)
           /\ Len(param) = 0 => out.buf = <<>>
           /\ Len(param) >= 1 => Len(out.buf) = TotalLen(param) + Len(param) - 1

C9_Witness ==
    /\ op = "Vec<Input>::serialize"
    /\ Len(param) = 2
    /\ ret.tag = "Ok"
    /\ out.buf = <<"A","R","G","S","|","&","X","M","L">>

\* the selector of the value a call returned
Returned == IF op = "from_parts" THEN ret.val ELSE ret.val.selector

\* C10: a Selector returned by from_parts, or inside an Input returned by
\* deserialize, carries a non-empty key when it is Exclude or Count and no
\* key when it is CountAll or None.
C10_KeyInvariant ==
    (op \in {"from_parts", "Input::deserialize"} /\ ret.tag = "Ok") =>
      /\ Returned.variant \in {"Exclude", "Count"} =>
           arg(Returned).some /\ arg(Returned).v # <<>>
      /\ Returned.variant \in {"CountAll", "None"} => ~arg(Returned).some
====
